---- MODULE Spec2Model ----
(***************************************************************************)
(* drpg synchronisation engine (src/drpg/sync.py): the metadata cache, the *)
(* change detector, the per-item download pipeline run on a thread pool,   *)
(* the path normaliser and orphan cleanup, as a state machine.             *)
(*                                                                         *)
(* Strings that the code transforms (names, path segments) are sequences   *)
(* of one-character strings; opaque strings (timestamps, checksums, bytes) *)
(* are TLA+ strings.                                                       *)
(*                                                                         *)
(* Threads.  The sqlite3 connection is opened in __init__ with the default *)
(* check_same_thread.  sync() is modelled as called on the thread that     *)
(* constructed the instance, so its own store calls (product upserts,      *)
(* cleanup, close) go through.  The pipelines run on ThreadPool threads:   *)
(* their upsert has two modelled outcomes, committed (UpdateDbOk) and      *)
(* sqlite3.Error suppressed (UpdateDbFail).                                *)
(*                                                                         *)
(* Specifications.  Spec is one DrpgSync instance and its sync(); SpecRuns *)
(* is successive instances on one database; SpecNaming is an instance      *)
(* followed by one with a naming option changed; SpecInputs runs a pass on *)
(* product names and checksum lists drawn from bounded sets; SpecLive is   *)
(* sync() under weak fairness.                                             *)
(***************************************************************************)
EXTENDS Integers, Sequences, FiniteSets, TLC

VARIABLES
    config,     \* self._config: the options the engine reads
    library,    \* what self._api.customer_products() yields, in order
    products,   \* table products: product_id -> row
    files,      \* table files: <<product_id, item_id>> -> row
    disk,       \* the filesystem under library_path: path -> what is stored there
    conn,       \* self._db_conn: "open" or "closed" (None)
    pc,         \* position of the thread that runs sync()
    touched,    \* self._touched_items
    args,       \* process_item_args: sequence of <<product, item>>
    ei,         \* index of the next product the enumeration yields
    di,         \* index of the next element of process_item_args to classify
    todo,       \* items_to_download: sequence of <<product, item>>
    task,       \* one entry per element of items_to_download: its pipeline's position
    now,        \* the clock (datetime.now), one tick per DrpgSync instance
    files0,     \* history: the files table when the current pass started
    disk0,      \* history: the filesystem when the current pass started
    prev,       \* history: how the previous pass ended
    err         \* history: the exception that ended sync(), "none" without one

vars == <<config, library, products, files, disk, conn, pc, touched, args,
          ei, di, todo, task, now, files0, disk0, prev, err>>

-----------------------------------------------------------------------------
(* Bounds of the model *)

\* DrpgSync instances (passes) run one after the other on the same database
MaxPasses == 2
\* largest configured worker-pool size (config.threads)
MaxThreads == 2
\* longest product name the normalizers are run on
MaxNameLen == 3
\* longest list of checksum entries _newest_checksum is run on
MaxChecksums == 3

-----------------------------------------------------------------------------
(* Values *)

\* Python's None
None == "None"

\* no row / no file
NoRow == [absent |-> TRUE]
NoFile == [absent |-> TRUE]

Range(s) == {s[i] : i \in DOMAIN s}

Letters == {"a","b","c","d","e","f","g","h","i","j","k","l","m","n","o","p","q",
            "r","s","t","u","v","w","x","y","z",
            "A","B","C","D","E","F","G","H","I","J","K","L","M","N","O","P","Q",
            "R","S","T","U","V","W","X","Y","Z"}
Digits == {"0","1","2","3","4","5","6","7","8","9"}
\* \s of the regular expressions
Whitespace == {" ", "\t", "\n", "\r"}

-----------------------------------------------------------------------------
(* PathNormalizer *)

\* the characters of r'[<>:"/\\|?*]'
ForbiddenChars == {"<", ">", ":", "\"", "/", "\\", "|", "?", "*"}

\* PathNormalizer.separator_drpg
separator_drpg == <<" ", "-", " ">>

\* the named character references html.unescape decodes, of those the model's
\* strings can spell: amp, lt and gt are decoded without the ";" too, ll only
\* with it.  "U+226A" stands for the one character that code point is.
Entities == { [name |-> <<"&","a","m","p",";">>, char |-> "&"],
              [name |-> <<"&","a","m","p">>, char |-> "&"],
              [name |-> <<"&","l","t",";">>, char |-> "<"],
              [name |-> <<"&","l","t">>, char |-> "<"],
              [name |-> <<"&","g","t",";">>, char |-> ">"],
              [name |-> <<"&","g","t">>, char |-> ">"],
              [name |-> <<"&","l","l",";">>, char |-> "U+226A"] }

StartsWith(s, pre) ==
    /\ Len(s) >= Len(pre)
    /\ SubSeq(s, 1, Len(pre)) = pre

Drop(s, n) == SubSeq(s, n + 1, Len(s))

\* the longest character reference s starts with
LongestEntity(s) ==
    CHOOSE e \in Entities :
        /\ StartsWith(s, e.name)
        /\ \A x \in Entities : StartsWith(s, x.name) => Len(x.name) <= Len(e.name)

RECURSIVE Unescape(_)
\* html.unescape
Unescape(s) ==
    IF s = <<>> THEN <<>>
    ELSE IF \E e \in Entities : StartsWith(s, e.name)
         THEN LET e == LongestEntity(s)
              IN  <<e.char>> \o Unescape(Drop(s, Len(e.name)))
         ELSE <<Head(s)>> \o Unescape(Tail(s))

RECURSIVE ReplaceForbidden(_)
\* re.sub(r'[<>:"/\\|?*]', separator, part)
ReplaceForbidden(s) ==
    IF s = <<>> THEN <<>>
    ELSE (IF Head(s) \in ForbiddenChars THEN separator_drpg ELSE <<Head(s)>>)
         \o ReplaceForbidden(Tail(s))

RECURSIVE LStrip(_, _)
LStrip(s, chars) ==
    IF s # <<>> /\ Head(s) \in chars THEN LStrip(Tail(s), chars) ELSE s

RECURSIVE RStrip(_, _)
RStrip(s, chars) ==
    IF s # <<>> /\ s[Len(s)] \in chars THEN RStrip(SubSeq(s, 1, Len(s) - 1), chars) ELSE s

\* str.strip(chars): removes leading and trailing characters that are in chars
Strip(s, chars) == RStrip(LStrip(s, chars), chars)

RECURSIVE SkipRepeats(_, _)
\* s without the copies of pat it starts with
SkipRepeats(s, pat) ==
    IF StartsWith(s, pat) THEN SkipRepeats(Drop(s, Len(pat)), pat) ELSE s

RECURSIVE CollapseSeparators(_)
\* re.sub("( - )+", " - ", part)
CollapseSeparators(s) ==
    IF s = <<>> THEN <<>>
    ELSE IF StartsWith(s, separator_drpg)
         THEN separator_drpg \o CollapseSeparators(SkipRepeats(s, separator_drpg))
         ELSE <<Head(s)>> \o CollapseSeparators(Tail(s))

RECURSIVE CollapseWhitespace(_)
\* re.sub(r"\s+", " ", part)
CollapseWhitespace(s) ==
    IF s = <<>> THEN <<>>
    ELSE IF Head(s) \in Whitespace
         THEN <<" ">> \o CollapseWhitespace(LStrip(s, Whitespace))
         ELSE <<Head(s)>> \o CollapseWhitespace(Tail(s))

\* re.sub(r"[^a-zA-Z0-9.\s]", "_", part)
ReplaceNonStandard(s) ==
    [i \in DOMAIN s |->
        IF s[i] \in Letters \cup Digits \cup {"."} \cup Whitespace THEN s[i] ELSE "_"]

\* mutant: character references are decoded first, as the default policy does
normalize_drivethrurpg_compatible_Unescapes(part) ==
    CollapseWhitespace(ReplaceNonStandard(Unescape(part)))

\* PathNormalizer.normalize_drivethrurpg_compatible
normalize_drivethrurpg_compatible(part) ==
    CollapseWhitespace(ReplaceNonStandard(part))

\* PathNormalizer.normalize
normalize(part) ==
    CollapseWhitespace(
        CollapseSeparators(
            Strip(ReplaceForbidden(Unescape(part)), Range(separator_drpg))))

\* _normalize_path_part
normalize_path_part(part, compatibility_mode) ==
    IF compatibility_mode
    THEN normalize_drivethrurpg_compatible(part)
    ELSE normalize(part)

\* product.get("publisher", {}).get("name", "Others")
PublisherOrOthers(product) ==
    IF product.publisher = None THEN <<"O","t","h","e","r","s">> ELSE product.publisher

\* DrpgSync._file_path: the segments below config.library_path
file_path(cfg, product, item) ==
    LET publishers_name == normalize_path_part(PublisherOrOthers(product), cfg.compatibility_mode)
        product_name == normalize_path_part(product.name, cfg.compatibility_mode)
        item_name == normalize_path_part(item.filename, cfg.compatibility_mode)
    IN  IF cfg.omit_publisher
        THEN <<product_name, item_name>>
        ELSE <<publishers_name, product_name, item_name>>

-----------------------------------------------------------------------------
(* Checksums *)

\* datetime.fromisoformat(s["checksumDate"]) as the ordering key: dates are
\* <<year, month, day>>
DateLess(a, b) ==
    \/ a[1] < b[1]
    \/ a[1] = b[1] /\ a[2] < b[2]
    \/ a[1] = b[1] /\ a[2] = b[2] /\ a[3] < b[3]

RECURSIVE MaxEntry(_, _)
\* max(..., key=...): the first entry with the largest key
MaxEntry(best, rest) ==
    IF rest = <<>> THEN best
    ELSE MaxEntry(IF DateLess(best.checksumDate, Head(rest).checksumDate)
                  THEN Head(rest) ELSE best, Tail(rest))

\* mutant: the first entry is taken
newest_checksum_First(item) ==
    IF item.checksums = <<>> THEN None
    ELSE Head(item.checksums).checksum

\* _newest_checksum
newest_checksum(item) ==
    IF item.checksums = <<>> THEN None
    ELSE MaxEntry(Head(item.checksums), Tail(item.checksums)).checksum

\* md5(file_content).hexdigest() of the byte strings the model fetches
MD5(bytes) ==
    CASE bytes = "x1" -> "c1"
      [] bytes = "x2" -> "c2"
      [] OTHER -> "c0"

-----------------------------------------------------------------------------
(* The remote catalogue the model draws libraries from *)

\* the <<orderProductId, index>> keys of the catalogue
Keys == {<<1, 1>>, <<1, 2>>, <<2, 1>>}

Item11 == [index |-> 1, filename |-> <<"a">>,
           checksums |-> << [checksum |-> "c1", checksumDate |-> <<2020, 1, 1>>],
                            [checksum |-> "c2", checksumDate |-> <<2021, 1, 1>>],
                            [checksum |-> "c0", checksumDate |-> <<2019, 1, 1>>] >>]
Item12 == [index |-> 2, filename |-> <<"b">>, checksums |-> <<>>]
Item21 == [index |-> 1, filename |-> <<"a">>,
           checksums |-> << [checksum |-> "c1", checksumDate |-> <<2020, 1, 1>>] >>]

Product1(items) ==
    [orderProductId |-> 1, name |-> <<"A", ":", "B">>, publisher |-> <<"P">>,
     fileLastModified |-> "t2", files |-> items]
Product2(items) ==
    [orderProductId |-> 2, name |-> <<"R">>, publisher |-> None,
     fileLastModified |-> "t2", files |-> items]

\* what customer_products() may yield
Libraries ==
    { <<>>,
      << Product1(<<>>) >>,
      << Product1(<<Item11>>) >>,
      << Product1(<<Item11>>), Product2(<<Item21>>) >>,
      << Product1(<<Item11, Item12>>) >> }

\* the catalogue's product and item of a key
CatalogueProduct(k) ==
    IF k[1] = 1 THEN Product1(<<Item11, Item12>>) ELSE Product2(<<Item21>>)
CatalogueItem(k) ==
    IF k = <<1, 1>> THEN Item11 ELSE IF k = <<1, 2>> THEN Item12 ELSE Item21

\* the byte strings a fetch can return
Contents == {"x1", "x2"}

Configs ==
    [use_checksums : BOOLEAN, validate : BOOLEAN, dry_run : BOOLEAN,
     compatibility_mode : {FALSE}, omit_publisher : {FALSE},
     threads : 1..MaxThreads]

-----------------------------------------------------------------------------
(* Paths and the filesystem *)

RECURSIVE JoinPath(_)
\* str(path): the segments below library_path, each preceded by "/"; an empty
\* segment and a "." segment add nothing (pathlib drops them)
JoinPath(segs) ==
    IF segs = <<>> THEN <<>>
    ELSE (IF Head(segs) \in {<<>>, <<".">>} THEN <<>> ELSE <<"/">> \o Head(segs))
         \o JoinPath(Tail(segs))

\* str(self._file_path(product, item))
path_str(cfg, product, item) == JoinPath(file_path(cfg, product, item))

\* Path.exists()
exists(dsk, path) == path \in DOMAIN dsk

\* path.parent.mkdir(parents=True, exist_ok=True); path.write_bytes(file_content)
write_bytes(dsk, path, content) ==
    [q \in DOMAIN dsk \cup {path} |-> IF q = path THEN content ELSE dsk[q]]

-----------------------------------------------------------------------------
(* The cache store *)

\* _update_product_in_db: INSERT ... ON CONFLICT(product_id) DO UPDATE
update_product_in_db(prods, product, clock) ==
    [q \in DOMAIN prods \cup {product.orderProductId} |->
        IF q = product.orderProductId
        THEN [name |-> product.name, publisher_name |-> product.publisher,
              last_api_check |-> clock]
        ELSE prods[q]]

\* _get_db_file_info
get_db_file_info(fs, product_id, item_id) ==
    IF <<product_id, item_id>> \in DOMAIN fs THEN fs[<<product_id, item_id>>] ELSE NoRow

\* the row the pipeline's INSERT ... ON CONFLICT DO UPDATE writes
file_row(cfg, product, item, local_checksum, clock) ==
    [filename |-> item.filename,
     api_last_modified |-> product.fileLastModified,
     api_checksum |-> newest_checksum(item),
     local_path |-> path_str(cfg, product, item),
     local_last_synced |-> clock,
     local_checksum |-> local_checksum]

\* INSERT INTO files ... ON CONFLICT(product_id, item_id) DO UPDATE SET ...
upsert_file(fs, key, row) ==
    [q \in DOMAIN fs \cup {key} |-> IF q = key THEN row ELSE fs[q]]

\* mutant: the difference is taken the wrong way round, nothing is deleted
cleanup_db_Reversed(fs, touched_items) ==
    IF touched_items = {} THEN fs
    ELSE LET db_keys == DOMAIN fs
             keys_to_delete == touched_items \ db_keys
         IN  [q \in db_keys \ keys_to_delete |-> fs[q]]

\* mutant: the rows that were seen are the ones deleted
cleanup_db_DeletesSeen(fs, touched_items) ==
    IF touched_items = {} THEN fs
    ELSE LET db_keys == DOMAIN fs
             keys_to_delete == db_keys \cap touched_items
         IN  [q \in db_keys \ keys_to_delete |-> fs[q]]

\* _cleanup_db
cleanup_db(fs, touched_items) ==
    IF touched_items = {} THEN fs
    ELSE LET db_keys == DOMAIN fs
             keys_to_delete == db_keys \ touched_items
         IN  [q \in db_keys \ keys_to_delete |-> fs[q]]

-----------------------------------------------------------------------------
(* Change detection *)

\* mutant: the cached local_path is not compared with the computed path
need_download_db_IgnoresPath(cfg, fs, dsk, product, item) ==
    LET expected_path == path_str(cfg, product, item)
        db_info == get_db_file_info(fs, product.orderProductId, item.index)
    IN  IF db_info = NoRow THEN TRUE
        ELSE IF product.fileLastModified # db_info.api_last_modified THEN TRUE
        ELSE IF cfg.use_checksums /\ newest_checksum(item) # db_info.api_checksum THEN TRUE
        ELSE IF ~exists(dsk, expected_path) THEN TRUE
        ELSE FALSE

\* mutant: the checksums are compared whether or not use_checksums is set
need_download_db_AlwaysChecksums(cfg, fs, dsk, product, item) ==
    LET expected_path == path_str(cfg, product, item)
        db_info == get_db_file_info(fs, product.orderProductId, item.index)
    IN  IF db_info = NoRow THEN TRUE
        ELSE IF expected_path # db_info.local_path THEN TRUE
        ELSE IF product.fileLastModified # db_info.api_last_modified THEN TRUE
        ELSE IF newest_checksum(item) # db_info.api_checksum THEN TRUE
        ELSE IF ~exists(dsk, expected_path) THEN TRUE
        ELSE FALSE

\* mutant: without a record, the item is downloaded only when its file is missing
need_download_db_TrustsDisk(cfg, fs, dsk, product, item) ==
    LET expected_path == path_str(cfg, product, item)
        db_info == get_db_file_info(fs, product.orderProductId, item.index)
    IN  IF db_info = NoRow THEN ~exists(dsk, expected_path)
        ELSE IF expected_path # db_info.local_path THEN TRUE
        ELSE IF product.fileLastModified # db_info.api_last_modified THEN TRUE
        ELSE IF cfg.use_checksums /\ newest_checksum(item) # db_info.api_checksum THEN TRUE
        ELSE IF ~exists(dsk, expected_path) THEN TRUE
        ELSE FALSE

\* _need_download_db without the final check that the cached path exists
need_download_db_NoDiskCheck(cfg, fs, dsk, product, item) ==
    LET expected_path == path_str(cfg, product, item)
        db_info == get_db_file_info(fs, product.orderProductId, item.index)
    IN  IF db_info = NoRow THEN TRUE
        ELSE IF expected_path # db_info.local_path THEN TRUE
        ELSE IF product.fileLastModified # db_info.api_last_modified THEN TRUE
        ELSE IF cfg.use_checksums /\ newest_checksum(item) # db_info.api_checksum THEN TRUE
        ELSE FALSE

\* _need_download_db
need_download_db(cfg, fs, dsk, product, item) ==
    LET expected_path == path_str(cfg, product, item)
        db_info == get_db_file_info(fs, product.orderProductId, item.index)
    IN  IF db_info = NoRow THEN TRUE
        ELSE IF expected_path # db_info.local_path THEN TRUE
        ELSE IF product.fileLastModified # db_info.api_last_modified THEN TRUE
        ELSE IF cfg.use_checksums /\ newest_checksum(item) # db_info.api_checksum THEN TRUE
        ELSE IF ~exists(dsk, expected_path) THEN TRUE
        ELSE FALSE

-----------------------------------------------------------------------------
(* Download pipeline helpers *)

\* step 3 of _process_item_db: the local checksum, None when not computed
local_checksum_of(cfg, item, content) ==
    IF cfg.validate /\ newest_checksum(item) # None THEN MD5(content) ELSE None

\* the characters of the names the normalizers are run on: the characters of
\* two character references, a forbidden character, the characters of the
\* separator, a period, a digit, a tab, and a letter outside a-z and A-Z
NameAlphabet == {"&", "l", "t", ";", ":", " ", "-", ".", "1", "\t", "é"}

\* the product names: every string of NameAlphabet up to MaxNameLen
Names == UNION {[1..n -> NameAlphabet] : n \in 0..MaxNameLen}

\* the checksum entries of the lists: two share the latest date
ChecksumEntries ==
    { [checksum |-> "c1", checksumDate |-> <<2020, 1, 1>>],
      [checksum |-> "c2", checksumDate |-> <<2021, 1, 1>>],
      [checksum |-> "c0", checksumDate |-> <<2019, 1, 1>>],
      [checksum |-> "c1", checksumDate |-> <<2021, 1, 1>>],
      [checksum |-> "c0", checksumDate |-> <<2020, 2, 1>>] }

\* item["checksums"]: every list of entries up to MaxChecksums
ChecksumLists == UNION {[1..n -> ChecksumEntries] : n \in 0..MaxChecksums}

\* a product with one file, of the given name and checksum entries
InputProduct(name, sums) ==
    [orderProductId |-> 1, name |-> name, publisher |-> <<"P">>,
     fileLastModified |-> "t2",
     files |-> << [index |-> 1, filename |-> <<"a">>, checksums |-> sums] >>]

\* mutant: the result of the comparison is ignored
checksum_valid_Ignored(cfg, item, content) == TRUE

\* step 3 run only when use_checksums is on as well
checksum_valid_Conflated(cfg, item, content) ==
    ~(cfg.validate /\ cfg.use_checksums
        /\ newest_checksum(item) # None /\ MD5(content) # newest_checksum(item))

\* step 3 of _process_item_db: FALSE when the item is abandoned as invalid
checksum_valid(cfg, item, content) ==
    ~(cfg.validate /\ newest_checksum(item) # None /\ MD5(content) # newest_checksum(item))

-----------------------------------------------------------------------------
(* Initial states: a DrpgSync constructed on a database left by earlier runs *)

\* what a cache row of the database describes: nothing, the catalogue's
\* current state of the item, or an earlier state of it
RowKinds == {"none", "cur", "old"}

\* bytes whose MD5 is the given checksum
BytesOf(sum) == IF sum = "c1" THEN "x1" ELSE IF sum = "c2" THEN "x2" ELSE "x0"

\* the row an earlier successful download of key k left, under cfg
EarlierRow(cfg, k, kind) ==
    LET product == CatalogueProduct(k)
        item == CatalogueItem(k)
        sum == IF kind = "cur" THEN newest_checksum(item)
               ELSE IF item.checksums = <<>> THEN None
               ELSE Head(item.checksums).checksum
    IN  [filename |-> item.filename,
         api_last_modified |-> IF kind = "cur" THEN product.fileLastModified ELSE "t1",
         api_checksum |-> sum,
         local_path |-> path_str(cfg, product, item),
         local_last_synced |-> 0,
         local_checksum |-> IF cfg.validate THEN sum ELSE None]

\* what is stored at a path: the bytes, and the download that wrote them
Stored(bytes, key, row) ==
    [bytes |-> bytes, key |-> key,
     api_last_modified |-> row.api_last_modified, api_checksum |-> row.api_checksum]

InitFiles(cfg, kinds) ==
    [k \in {q \in Keys : kinds[q] # "none"} |-> EarlierRow(cfg, k, kinds[k])]

InitDisk(fs) ==
    [p \in {fs[k].local_path : k \in DOMAIN fs} |->
        LET k == CHOOSE q \in DOMAIN fs : fs[q].local_path = p
        IN  Stored(BytesOf(fs[k].api_checksum), k, fs[k])]

InitProducts(fs) ==
    [q \in {k[1] : k \in DOMAIN fs} |->
        LET product == CatalogueProduct(<<q, 1>>)
        IN  [name |-> product.name, publisher_name |-> product.publisher,
             last_api_check |-> 0]]

NoPrev ==
    [pc |-> "none", outcomes |-> {}, flagged |-> 0, config |-> None,
     failed |-> {}, again |-> FALSE]

Init ==
    /\ config \in Configs
    /\ library \in Libraries
    /\ \E kinds \in [Keys -> RowKinds] :
          /\ files = InitFiles(config, kinds)
          /\ disk = InitDisk(files)
          /\ products = InitProducts(files)
    /\ conn = "open"
    /\ pc = "init"
    /\ touched = {}
    /\ args = <<>>
    /\ ei = 1
    /\ di = 1
    /\ todo = <<>>
    /\ task = <<>>
    /\ now = 1
    /\ files0 = files
    /\ disk0 = disk
    /\ prev = NoPrev
    /\ err = "none"

-----------------------------------------------------------------------------
(* sync(): authentication and enumeration *)

\* _close_db that leaves the connection as it is
close_db_Noop(c) == c

\* self._db_conn.close(); self._db_conn = None
close_db(c) == "closed"

\* self._api.token() returns; self._touched_items.clear()
Authenticate ==
    /\ pc = "init"
    /\ pc' = "enum"
    /\ touched' = {}
    /\ UNCHANGED <<config, library, products, files, disk, conn, args, ei, di,
                   todo, task, now, files0, disk0, prev, err>>

\* self._api.token() raises: sync() ends with the exception, before the try
AuthenticateFail ==
    /\ pc = "init"
    /\ pc' = "raised"
    /\ err' = "auth"
    /\ UNCHANGED <<config, library, products, files, disk, conn, touched, args, ei,
                   di, todo, task, now, files0, disk0, prev>>

\* the <<product, item>> pairs of one product, in order
ItemArgs(product) == [i \in DOMAIN product.files |-> <<product, product.files[i]>>]

\* the loop body without the product upsert
EnumProduct_NoUpsert ==
    /\ pc = "enum"
    /\ conn = "open"
    /\ ei <= Len(library)
    /\ LET product == library[ei]
       IN  /\ touched' = touched \cup
                 {<<product.orderProductId, product.files[i].index>> : i \in DOMAIN product.files}
           /\ args' = args \o ItemArgs(product)
    /\ ei' = ei + 1
    /\ UNCHANGED <<config, library, products, files, disk, conn, pc, di, todo, task,
                   now, files0, disk0, prev, err>>

\* one iteration of "for product in self._api.customer_products()"
EnumProduct ==
    /\ pc = "enum"
    /\ conn = "open"
    /\ ei <= Len(library)
    /\ LET product == library[ei]
       IN  /\ products' = update_product_in_db(products, product, now)
           /\ touched' = touched \cup
                 {<<product.orderProductId, product.files[i].index>> : i \in DOMAIN product.files}
           /\ args' = args \o ItemArgs(product)
    /\ ei' = ei + 1
    /\ UNCHANGED <<config, library, files, disk, conn, pc, di, todo, task, now,
                   files0, disk0, prev, err>>

\* mutant: the except branch returns without closing the connection
AbortPass_NoClose(e) ==
    /\ err' = e
    /\ pc' = "aborted"
    /\ UNCHANGED <<config, library, products, files, disk, conn, touched, args, ei,
                   di, todo, task, now, files0, disk0, prev>>

\* the except branch of sync(): log, self._close_db(), return
AbortPass(e) ==
    /\ err' = e
    /\ conn' = close_db(conn)
    /\ pc' = "aborted"
    /\ UNCHANGED <<config, library, products, files, disk, touched, args, ei, di,
                   todo, task, now, files0, disk0, prev>>

\* customer_products() raises, on its first page or on a later one
EnumApiFail ==
    /\ pc = "enum"
    /\ ei <= Len(library) + 1
    /\ AbortPass("api")

\* the store failure skips the product and the loop goes on
EnumStoreFail_SkipsProduct ==
    /\ pc = "enum"
    /\ conn = "open"
    /\ ei <= Len(library)
    /\ err' = "store"
    /\ ei' = ei + 1
    /\ UNCHANGED <<config, library, products, files, disk, conn, pc, touched, args,
                   di, todo, task, now, files0, disk0, prev>>

\* _update_product_in_db raises sqlite3.Error for the product just yielded
EnumStoreFail ==
    /\ pc = "enum"
    /\ conn = "open"
    /\ ei <= Len(library)
    /\ AbortPass("store")

\* customer_products() is exhausted
EnumDone ==
    /\ pc = "enum"
    /\ ei = Len(library) + 1
    /\ pc' = "detect"
    /\ di' = 1
    /\ todo' = <<>>
    /\ UNCHANGED <<config, library, products, files, disk, conn, touched, args, ei,
                   task, now, files0, disk0, prev, err>>

-----------------------------------------------------------------------------
(* sync(): change detection *)

\* one iteration of "for product, item in process_item_args"
Detect ==
    /\ pc = "detect"
    /\ di <= Len(args)
    /\ todo' = IF need_download_db(config, files, disk, args[di][1], args[di][2])
               THEN Append(todo, args[di]) ELSE todo
    /\ di' = di + 1
    /\ UNCHANGED <<config, library, products, files, disk, conn, pc, touched, args,
                   ei, task, now, files0, disk0, prev, err>>

\* a task of the pool: the stage its pipeline is at, how it ended, the content
\* it fetched, and (history) the pipeline steps it completed
QueuedTask == [stage |-> "queued", outcome |-> "none", bytes |-> None, did |-> {}]

\* Dispatch with the pool created while items are still being classified
Dispatch_Early ==
    /\ pc = "detect"
    /\ di <= Len(args) + 1
    /\ IF todo = <<>>
       THEN pc' = "cleanup" /\ task' = <<>>
       ELSE pc' = "pool" /\ task' = [i \in DOMAIN todo |-> QueuedTask]
    /\ UNCHANGED <<config, library, products, files, disk, conn, touched, args, ei,
                   di, todo, now, files0, disk0, prev, err>>

\* the pool given every enumerated item, flagged or not
Dispatch_All ==
    /\ pc = "detect"
    /\ di = Len(args) + 1
    /\ todo' = args
    /\ IF args = <<>>
       THEN pc' = "cleanup" /\ task' = <<>>
       ELSE pc' = "pool" /\ task' = [i \in DOMAIN args |-> QueuedTask]
    /\ UNCHANGED <<config, library, products, files, disk, conn, touched, args, ei,
                   di, now, files0, disk0, prev, err>>

\* "if items_to_download:" after the loop: the pool is created and starmap
\* queues one task per item, or the phase is skipped
Dispatch ==
    /\ pc = "detect"
    /\ di = Len(args) + 1
    /\ IF todo = <<>>
       THEN pc' = "cleanup" /\ task' = <<>>
       ELSE pc' = "pool" /\ task' = [i \in DOMAIN todo |-> QueuedTask]
    /\ UNCHANGED <<config, library, products, files, disk, conn, touched, args, ei,
                   di, todo, now, files0, disk0, prev, err>>

-----------------------------------------------------------------------------
(* The download phase: pool.starmap(self._process_item_db, items_to_download) *)

\* the tasks a pool thread is running
InFlight == {i \in DOMAIN task : task[i].stage \notin {"queued", "done"}}

TaskProduct(i) == todo[i][1]
TaskItem(i) == todo[i][2]
TaskKey(i) == <<TaskProduct(i).orderProductId, TaskItem(i).index>>
TaskPath(i) == path_str(config, TaskProduct(i), TaskItem(i))

\* the pipeline of task i returns (or its exception is suppressed) with outcome o
Finish(i, o) == task' = [task EXCEPT ![i].stage = "done", ![i].outcome = o]

\* the pipeline of task i completes a step and moves on to stage st
Advance(i, st, step) == task' = [task EXCEPT ![i].stage = st, ![i].did = @ \cup {step}]

\* mutant: the pipeline does not look at dry_run
StartTask_NoDryRun(i) ==
    /\ pc = "pool"
    /\ task[i].stage = "queued"
    /\ \A j \in 1..(i - 1) : task[j].stage # "queued"
    /\ Cardinality(InFlight) < config.threads
    /\ Advance(i, "url", "path")
    /\ UNCHANGED <<config, library, products, files, disk, conn, pc, touched, args,
                   ei, di, todo, now, files0, disk0, prev, err>>

\* mutant: a thread is started for every task, whatever the pool size
StartTask_Unbounded(i) ==
    /\ pc = "pool"
    /\ task[i].stage = "queued"
    /\ \A j \in 1..(i - 1) : task[j].stage # "queued"
    /\ IF config.dry_run THEN Finish(i, "dry") ELSE Advance(i, "url", "path")
    /\ UNCHANGED <<config, library, products, files, disk, conn, pc, touched, args,
                   ei, di, todo, now, files0, disk0, prev, err>>

\* a free pool thread takes the next queued task: the path is computed, and
\* with dry_run the pipeline returns at once
StartTask(i) ==
    /\ pc = "pool"
    /\ task[i].stage = "queued"
    /\ \A j \in 1..(i - 1) : task[j].stage # "queued"
    /\ Cardinality(InFlight) < config.threads
    /\ IF config.dry_run THEN Finish(i, "dry") ELSE Advance(i, "url", "path")
    /\ UNCHANGED <<config, library, products, files, disk, conn, pc, touched, args,
                   ei, di, todo, now, files0, disk0, prev, err>>

\* 1. self._api.prepare_download_url returns
PrepareUrlOk(i) ==
    /\ pc = "pool"
    /\ task[i].stage = "url"
    /\ Advance(i, "fetch", "url")
    /\ UNCHANGED <<config, library, products, files, disk, conn, pc, touched, args,
                   ei, di, todo, now, files0, disk0, prev, err>>

\* 1. prepare_download_url raises PrepareDownloadUrlException (or httpx.HTTPError)
PrepareUrlFail(i) ==
    /\ pc = "pool"
    /\ task[i].stage = "url"
    /\ Finish(i, "url_failed")
    /\ UNCHANGED <<config, library, products, files, disk, conn, pc, touched, args,
                   ei, di, todo, now, files0, disk0, prev, err>>

\* 2. httpx.get returns content; 3. the checksum is validated if enabled
FetchOk(i) ==
    /\ pc = "pool"
    /\ task[i].stage = "fetch"
    /\ \E content \in Contents :
          IF checksum_valid(config, TaskItem(i), content)
          THEN task' = [task EXCEPT ![i].stage = "write", ![i].bytes = content,
                                    ![i].did = @ \cup {"fetch"} \cup
                                        IF local_checksum_of(config, TaskItem(i), content) # None
                                        THEN {"validate"} ELSE {}]
          ELSE task' = [task EXCEPT ![i].stage = "done", ![i].outcome = "invalid",
                                    ![i].bytes = content, ![i].did = @ \cup {"fetch"}]
    /\ UNCHANGED <<config, library, products, files, disk, conn, pc, touched, args,
                   ei, di, todo, now, files0, disk0, prev, err>>

\* 2. httpx.get or raise_for_status raises
FetchFail(i) ==
    /\ pc = "pool"
    /\ task[i].stage = "fetch"
    /\ Finish(i, "http_failed")
    /\ UNCHANGED <<config, library, products, files, disk, conn, pc, touched, args,
                   ei, di, todo, now, files0, disk0, prev, err>>

\* what the pipeline of task i stores at its path
TaskStored(i, bytes) ==
    [bytes |-> bytes, key |-> TaskKey(i),
     api_last_modified |-> TaskProduct(i).fileLastModified,
     api_checksum |-> newest_checksum(TaskItem(i))]

\* 4. mkdir and write_bytes succeed
WriteOk(i) ==
    /\ pc = "pool"
    /\ task[i].stage = "write"
    /\ disk' = write_bytes(disk, TaskPath(i), TaskStored(i, task[i].bytes))
    /\ Advance(i, "db", "write")
    /\ UNCHANGED <<config, library, products, files, conn, pc, touched, args, ei, di,
                   todo, now, files0, disk0, prev, err>>

\* mutant: the except branch logs and does not return
WriteFail_NoReturn(i) ==
    /\ pc = "pool"
    /\ task[i].stage = "write"
    /\ disk' = disk
    /\ task' = [task EXCEPT ![i].stage = "db"]
    /\ UNCHANGED <<config, library, products, files, conn, pc, touched, args, ei, di,
                   todo, now, files0, disk0, prev, err>>

\* 4. mkdir or write_bytes raises OSError: before the file was opened, or after
\* write_bytes truncated it
WriteFail(i) ==
    /\ pc = "pool"
    /\ task[i].stage = "write"
    /\ \/ disk' = disk
       \/ disk' = write_bytes(disk, TaskPath(i), TaskStored(i, "truncated"))
    /\ Finish(i, "write_failed")
    /\ UNCHANGED <<config, library, products, files, conn, pc, touched, args, ei, di,
                   todo, now, files0, disk0, prev, err>>

\* 5. the upsert commits (the product row the foreign key needs is there)
UpdateDbOk(i) ==
    /\ pc = "pool"
    /\ task[i].stage = "db"
    /\ conn = "open"
    /\ TaskKey(i)[1] \in DOMAIN products
    /\ files' = upsert_file(files, TaskKey(i),
                    file_row(config, TaskProduct(i), TaskItem(i),
                             local_checksum_of(config, TaskItem(i), task[i].bytes), now))
    /\ task' = [task EXCEPT ![i].stage = "done", ![i].outcome = "ok",
                             ![i].did = @ \cup {"upsert"}]
    /\ UNCHANGED <<config, library, products, disk, conn, pc, touched, args, ei, di,
                   todo, now, files0, disk0, prev, err>>

\* mutant: sqlite3.Error is not among the suppressed errors, so the exception
\* leaves the pool and sync()
UpdateDbFail_Propagates(i) ==
    /\ pc = "pool"
    /\ task[i].stage = "db"
    /\ Finish(i, "db_failed")
    /\ pc' = "raised"
    /\ err' = "store"
    /\ UNCHANGED <<config, library, products, files, disk, conn, touched, args,
                   ei, di, todo, now, files0, disk0, prev>>

\* 5. the upsert raises sqlite3.Error, which suppress_errors logs and drops.
\* The connection was created by the thread that constructed DrpgSync, with
\* sqlite3's default check_same_thread: used from a pool thread it raises
\* sqlite3.ProgrammingError, so this is the outcome a pool thread gets from
\* CPython's sqlite3; UpdateDbOk is kept for a store that accepts the call.
UpdateDbFail(i) ==
    /\ pc = "pool"
    /\ task[i].stage = "db"
    /\ Finish(i, "db_failed")
    /\ UNCHANGED <<config, library, products, files, disk, conn, pc, touched, args,
                   ei, di, todo, now, files0, disk0, prev, err>>

\* mutant: the tasks are submitted and not waited for
PoolJoin_NoWait ==
    /\ pc = "pool"
    /\ pc' = "cleanup"
    /\ UNCHANGED <<config, library, products, files, disk, conn, touched, args, ei,
                   di, todo, task, now, files0, disk0, prev, err>>

\* starmap returns: every task has finished
PoolJoin ==
    /\ pc = "pool"
    /\ \A i \in DOMAIN task : task[i].stage = "done"
    /\ pc' = "cleanup"
    /\ UNCHANGED <<config, library, products, files, disk, conn, touched, args, ei,
                   di, todo, task, now, files0, disk0, prev, err>>

-----------------------------------------------------------------------------
(* sync(): cleanup and the end of the pass *)

\* self._cleanup_db(); self._close_db()
Cleanup ==
    /\ pc = "cleanup"
    /\ files' = cleanup_db(files, touched)
    /\ conn' = close_db(conn)
    /\ pc' = "finished"
    /\ UNCHANGED <<config, library, products, disk, touched, args, ei, di, todo,
                   task, now, files0, disk0, prev, err>>

\* the keys whose pipeline ended on a URL, transport, integrity or write failure
FailedKeys ==
    {<<todo[i][1].orderProductId, todo[i][2].index>> :
        i \in {q \in DOMAIN task :
                  task[q].outcome \in {"url_failed", "http_failed", "invalid", "write_failed"}}}

\* the process ends and a later run constructs a new DrpgSync on the same
\* database, with the same configuration and remote library
NewInstance ==
    /\ pc \in {"finished", "aborted", "raised"}
    /\ now < MaxPasses
    /\ prev' = [pc |-> pc, outcomes |-> {task[i].outcome : i \in DOMAIN task},
                flagged |-> Len(todo), config |-> config,
                failed |-> FailedKeys, again |-> FALSE]
    /\ conn' = "open"
    /\ pc' = "init"
    /\ touched' = {}
    /\ args' = <<>>
    /\ ei' = 1
    /\ di' = 1
    /\ todo' = <<>>
    /\ task' = <<>>
    /\ now' = now + 1
    /\ files0' = files
    /\ disk0' = disk
    /\ err' = "none"
    /\ UNCHANGED <<config, library, products, files, disk>>

\* cfg with one of the two naming options toggled
Toggled(cfg) ==
    { [cfg EXCEPT !.omit_publisher = ~cfg.omit_publisher],
      [cfg EXCEPT !.compatibility_mode = ~cfg.compatibility_mode] }

\* a later run constructs a new DrpgSync on the same database and remote
\* library, with omit_publisher or compatibility_mode changed
NewInstanceRenaming ==
    /\ pc \in {"finished", "aborted", "raised"}
    /\ now < MaxPasses
    /\ config' \in Toggled(config)
    /\ prev' = [pc |-> pc, outcomes |-> {task[i].outcome : i \in DOMAIN task},
                flagged |-> Len(todo), config |-> config,
                failed |-> FailedKeys, again |-> FALSE]
    /\ conn' = "open"
    /\ pc' = "init"
    /\ touched' = {}
    /\ args' = <<>>
    /\ ei' = 1
    /\ di' = 1
    /\ todo' = <<>>
    /\ task' = <<>>
    /\ now' = now + 1
    /\ files0' = files
    /\ disk0' = disk
    /\ err' = "none"
    /\ UNCHANGED <<library, products, files, disk>>

Next ==
    \/ Authenticate
    \/ AuthenticateFail
    \/ EnumProduct
    \/ EnumApiFail
    \/ EnumStoreFail
    \/ EnumDone
    \/ Detect
    \/ Dispatch
    \/ \E i \in DOMAIN task :
          \/ StartTask(i)
          \/ PrepareUrlOk(i)
          \/ PrepareUrlFail(i)
          \/ FetchOk(i)
          \/ FetchFail(i)
          \/ WriteOk(i)
          \/ WriteFail(i)
          \/ UpdateDbOk(i)
          \/ UpdateDbFail(i)
    \/ PoolJoin
    \/ Cleanup

\* one DrpgSync instance: construction, then sync()
Spec == Init /\ [][Next]_vars

\* sync() with every call it makes returning: the thread that runs sync() and
\* the pool threads keep taking their next step
\* the runs start from a database whose rows are all of one kind
InitRuns ==
    /\ Init
    /\ config.use_checksums
    /\ \E kind \in RowKinds : files = InitFiles(config, [k \in Keys |-> kind])

\* sync() has not returned: a step of Next is enabled exactly then
Running == pc \in {"init", "enum", "detect", "pool", "cleanup"}

\* sync() on such a database with every call it makes returning: the thread
\* that runs sync() and the pool threads keep taking their next step.  This is
\* WF_vars(Next), with ENABLED <<Next>>_vars written out as Running.
SpecLive ==
    InitRuns /\ [][Next]_vars /\ ([]<>(~Running) \/ []<><<Next>>_vars)

NextRuns == Next \/ NewInstance

\* successive DrpgSync instances on the same database, checksum comparison on
SpecRuns == InitRuns /\ [][NextRuns]_vars

\* the configurations of the runs that change a naming option
NamingConfigs ==
    [use_checksums : {TRUE}, validate : {FALSE}, dry_run : {FALSE},
     compatibility_mode : BOOLEAN, omit_publisher : BOOLEAN, threads : {1}]

\* a database whose rows, if any, were written by a finished sync under the
\* configuration the first instance is constructed with
InitNaming ==
    /\ config \in NamingConfigs
    /\ library \in { << Product1(<<Item11>>), Product2(<<Item21>>) >>,
                      << Product1(<<Item11, Item12>>) >> }
    /\ \E kind \in {"none", "cur"} :
          /\ files = InitFiles(config, [k \in Keys |-> kind])
          /\ disk = InitDisk(files)
          /\ products = InitProducts(files)
    /\ conn = "open"
    /\ pc = "init"
    /\ touched = {}
    /\ args = <<>>
    /\ ei = 1
    /\ di = 1
    /\ todo = <<>>
    /\ task = <<>>
    /\ now = 1
    /\ files0 = files
    /\ disk0 = disk
    /\ prev = NoPrev
    /\ err = "none"

NextNaming == Next \/ NewInstanceRenaming

\* a DrpgSync instance, then one constructed with a naming option changed
SpecNaming == InitNaming /\ [][NextNaming]_vars

\* the configurations of the passes that run the normalizers and
\* _newest_checksum on drawn inputs
InputConfigs ==
    [use_checksums : {TRUE}, validate : {FALSE}, dry_run : {FALSE},
     compatibility_mode : BOOLEAN, omit_publisher : {FALSE}, threads : {1}]

\* an empty database and a library of one product with one file, whose name
\* or whose checksum entries are drawn from the input sets
InitInputs ==
    /\ config \in InputConfigs
    /\ \/ \E name \in Names : library = << InputProduct(name, Item21.checksums) >>
       \/ \E sums \in ChecksumLists : library = << InputProduct(<<"R">>, sums) >>
    /\ files = <<>>
    /\ disk = <<>>
    /\ products = <<>>
    /\ conn = "open"
    /\ pc = "init"
    /\ touched = {}
    /\ args = <<>>
    /\ ei = 1
    /\ di = 1
    /\ todo = <<>>
    /\ task = <<>>
    /\ now = 1
    /\ files0 = files
    /\ disk0 = disk
    /\ prev = NoPrev
    /\ err = "none"

\* one pass on each drawn input
SpecInputs == InitInputs /\ [][Next]_vars

-----------------------------------------------------------------------------
(* Properties *)

\* the row of key k in table fs, NoRow without one
RowOf(fs, k) == IF k \in DOMAIN fs THEN fs[k] ELSE NoRow

\* what is stored at path p of filesystem dsk, NoFile when nothing is
FileAt(dsk, p) == IF p \in DOMAIN dsk THEN dsk[p] ELSE NoFile

\* the content passed step 3 for the item: no validation applies, or the hash matched
PassedValidation(item, content) ==
    (config.validate /\ newest_checksum(item) # None) => MD5(content) = newest_checksum(item)

\* C1: a pipeline that ended on a URL, fetch or write failure leaves the row of
\* its key as it was when the pass started, and a row that differs from the
\* one the pass started with belongs to a task that obtained the URL, fetched
\* the content, passed validation where it applies and wrote the file.
C1_RowOnlyAfterWrite ==
    /\ \A i \in DOMAIN task :
          task[i].outcome \in {"url_failed", "http_failed", "write_failed"}
              => RowOf(files, TaskKey(i)) = RowOf(files0, TaskKey(i))
    /\ \A k \in DOMAIN files :
          files[k] # RowOf(files0, k)
              => \E i \in DOMAIN task :
                    /\ TaskKey(i) = k
                    /\ {"url", "fetch", "write"} \subseteq task[i].did
                    /\ PassedValidation(TaskItem(i), task[i].bytes)

\* C1 witness: a pass ended in which one pipeline failed on the URL for a key
\* that has a row and another failed to write for a key that has none
C1_Witness ==
    /\ pc = "finished"
    /\ \E i, j \in DOMAIN task :
          /\ task[i].outcome = "url_failed"
          /\ TaskKey(i) \in DOMAIN files0
          /\ task[j].outcome = "write_failed"
          /\ TaskKey(j) \notin DOMAIN files0

\* the fetched content of task i fails the configured validation
HashMismatch(i) ==
    /\ config.validate
    /\ newest_checksum(TaskItem(i)) # None
    /\ task[i].bytes # None
    /\ MD5(task[i].bytes) # newest_checksum(TaskItem(i))

\* C2: with validation configured and a checksum reported, a content whose
\* hash differs from the newest remote checksum ends the pipeline as invalid,
\* with the destination path and the cache row of the key as they were.
C2_InvalidContentDropped ==
    \A i \in DOMAIN task :
        HashMismatch(i) =>
            /\ task[i].stage = "done"
            /\ task[i].outcome = "invalid"
            /\ "write" \notin task[i].did
            /\ FileAt(disk, TaskPath(i)) = FileAt(disk0, TaskPath(i))
            /\ RowOf(files, TaskKey(i)) = RowOf(files0, TaskKey(i))

\* C2 witness: a pipeline ended on a hash mismatch for a key that has no row
C2_Witness ==
    \E i \in DOMAIN task :
        /\ HashMismatch(i)
        /\ task[i].outcome = "invalid"
        /\ TaskKey(i) \notin DOMAIN files0
        /\ pc = "finished"

\* C3: once the pass is at cleanup or beyond it, every dispatched task has
\* finished: none is queued or in flight.
C3_CleanupAfterPoolDrained ==
    pc \in {"cleanup", "finished"} =>
        \A i \in DOMAIN task : task[i].stage = "done" /\ task[i].outcome # "none"

\* C3 witness: cleanup is about to run after two tasks, one that failed to
\* fetch and one that wrote its file
C3_Witness ==
    /\ pc = "cleanup"
    /\ \E i, j \in DOMAIN task :
          task[i].outcome = "http_failed" /\ "write" \in task[j].did

\* C4 as claimed: after a pass whose enumeration succeeded, every row of the
\* files table has a key of the touched set.
C4_Original ==
    pc = "finished" => DOMAIN files \subseteq touched

\* C4: after a pass whose enumeration succeeded and yielded at least one item,
\* every row of the files table has a key of the touched set.
C4_OrphansDeleted ==
    (pc = "finished" /\ touched # {}) => DOMAIN files \subseteq touched

\* C4 witness: the cache held (1,1), (1,2), (2,1), the pass touched (1,1) and
\* (2,1), and the cache now holds exactly these two
C4_Witness ==
    /\ pc = "finished"
    /\ DOMAIN files0 = {<<1, 1>>, <<1, 2>>, <<2, 1>>}
    /\ touched = {<<1, 1>>, <<2, 1>>}
    /\ DOMAIN files = {<<1, 1>>, <<2, 1>>}

\* C5: the cleanup step removes no row of a touched key, changes no field of
\* a row it keeps, and leaves the products table and the filesystem alone.
C5_CleanupFrame ==
    [][pc = "cleanup" =>
          /\ \A k \in DOMAIN files : k \in touched => k \in DOMAIN files'
          /\ \A k \in DOMAIN files' : k \in DOMAIN files /\ files'[k] = files[k]
          /\ products' = products
          /\ disk' = disk]_vars

\* C5 witness: cleanup removed the row of an orphan whose file is still stored
C5_Witness ==
    /\ pc = "finished"
    /\ \E k \in DOMAIN files0 \ DOMAIN files :
          /\ k \notin touched
          /\ FileAt(disk, files0[k].local_path) = FileAt(disk0, files0[k].local_path)
          /\ files0[k].local_path \in DOMAIN disk
    /\ \E k \in DOMAIN files : k \in touched /\ files[k] = RowOf(files0, k)

\* the products table when the pass started (the first pass of the database)
ProductsAtStart == InitProducts(files0)

\* the products the enumeration has yielded so far
Yielded == {library[j].orderProductId : j \in 1..(ei - 1)}

PoolCanStep ==
    \/ \A i \in DOMAIN task : task[i].stage = "done"
    \/ InFlight # {}
    \/ Cardinality(InFlight) < config.threads

\* C7: no pipeline failure ends the pass: a pass ends early only before any
\* task was dispatched, a pass at cleanup or beyond has run every dispatched
\* task to an outcome, the download phase can always take a step, and the row
\* of a key whose own pipeline did not store it is the one the pass started
\* with, until cleanup.
C7_FailuresIsolated ==
    /\ pc \in {"aborted", "raised"} => task = <<>>
    /\ pc \in {"cleanup", "finished"} =>
          \A i \in DOMAIN task : task[i].stage = "done" /\ task[i].outcome # "none"
    /\ pc = "pool" => PoolCanStep
    /\ pc \in {"pool", "cleanup"} =>
          \A k \in DOMAIN files \cup DOMAIN files0 :
              (\A i \in DOMAIN task : TaskKey(i) = k => task[i].outcome # "ok")
                  => RowOf(files, k) = RowOf(files0, k)
    /\ \A i \in DOMAIN task :
          task[i].outcome = "ok" =>
              /\ TaskKey(i) \in DOMAIN files
              /\ files[TaskKey(i)].api_last_modified = TaskProduct(i).fileLastModified

\* C7 witness: a pass finished after one pipeline's upsert failed and another
\* pipeline failed on its URL
C7_Witness ==
    /\ pc = "finished"
    /\ \E i, j \in DOMAIN task :
          /\ task[i].outcome = "db_failed"
          /\ task[j].outcome = "url_failed"

\* the file at the row's local_path holds the complete bytes of the download
\* the row describes
RowMatchesDisk(k) ==
    /\ files[k].local_path \in DOMAIN disk
    /\ disk[files[k].local_path].key = k
    /\ disk[files[k].local_path].bytes # "truncated"
    /\ disk[files[k].local_path].api_last_modified = files[k].api_last_modified
    /\ disk[files[k].local_path].api_checksum = files[k].api_checksum

\* C8 as claimed: once the download phase of a pass is over, every row of the
\* files table describes the bytes stored at its local_path.
C8_RowsMatchDisk ==
    pc \in {"cleanup", "finished"} => \A k \in DOMAIN files : RowMatchesDisk(k)

\* every download the previous pass dispatched fetched its content, passed
\* validation and wrote its file
PreviousPassDownloaded ==
    /\ prev.pc = "finished"
    /\ prev.outcomes \subseteq {"ok", "db_failed"}

\* C9 as claimed: after a pass that finished with every download fetched and
\* written, the next pass on the unchanged remote state, configuration and
\* files, with checksum comparison on, flags nothing.
C9_SecondPassFlagsNothing ==
    (PreviousPassDownloaded /\ config.use_checksums /\ pc \in {"detect", "pool", "cleanup", "finished"})
        => todo = <<>>

\* every configuration, whatever the naming options
AllConfigs ==
    [use_checksums : BOOLEAN, validate : BOOLEAN, dry_run : BOOLEAN,
     compatibility_mode : BOOLEAN, omit_publisher : BOOLEAN, threads : {1}]

\* the filesystem with some file stored at path p
WithFileAt(dsk, p) == write_bytes(dsk, p, [bytes |-> "x0"])

\* C10: an item whose key has no row is flagged, under every configuration and
\* with or without a file at its destination; the pass's change detection
\* flags every enumerated item that had no row.
C10_NoRowNeedsDownload ==
    /\ \A k \in Keys \ DOMAIN files : \A cfg \in AllConfigs :
          LET product == CatalogueProduct(k)
              item == CatalogueItem(k)
          IN  /\ need_download_db(cfg, files, disk, product, item)
              /\ need_download_db(cfg, files, WithFileAt(disk, path_str(cfg, product, item)),
                                  product, item)
    /\ pc = "detect" =>
          \A j \in 1..(di - 1) :
              <<args[j][1].orderProductId, args[j][2].index>> \notin DOMAIN files
                  => args[j] \in Range(todo)

\* C10 witness: change detection has classified an item that has no row
C10_Witness ==
    /\ pc = "detect"
    /\ di > 1
    /\ <<args[1][1].orderProductId, args[1][2].index>> \notin DOMAIN files
    /\ todo = <<args[1]>>

\* when every upsert of the previous pass committed as well, the next pass
\* flags nothing
PreviousPassRecorded ==
    (prev.pc = "finished" /\ prev.outcomes \subseteq {"ok"}
        /\ pc \in {"detect", "pool", "cleanup", "finished"}) => todo = <<>>

\* the checksum strings a cache row can hold
RowChecksums == {None, "c0", "c1", "c2"}

\* the row of key k matches the remote state under cfg: its local_path is the
\* destination computed now, its api_last_modified the remote string and, with
\* use_checksums, its api_checksum the newest remote checksum
RowMatchesRemote(cfg, row, k) ==
    /\ row # NoRow
    /\ row.local_path = path_str(cfg, CatalogueProduct(k), CatalogueItem(k))
    /\ row.api_last_modified = CatalogueProduct(k).fileLastModified
    /\ cfg.use_checksums => row.api_checksum = newest_checksum(CatalogueItem(k))

\* every row that matches the remote state, whatever its other columns, with
\* a file at its path, is classified as up to date, under every configuration
MatchingRowsUpToDate ==
    \A k \in Keys : \A cfg \in AllConfigs : \A sum \in RowChecksums :
        LET product == CatalogueProduct(k)
            item == CatalogueItem(k)
            row == [file_row(cfg, product, item, sum, 0) EXCEPT !.api_checksum = sum]
            fs == upsert_file(<<>>, k, row)
            dsk == WithFileAt(<<>>, path_str(cfg, product, item))
        IN  RowMatchesRemote(cfg, row, k) => ~need_download_db(cfg, fs, dsk, product, item)

\* C11: an item whose row matches the remote state (path, last-modified and,
\* with use_checksums, newest checksum) and whose path exists is not flagged:
\* for every configuration and every such row, and for every item the pass's
\* change detection has classified.
C11_MatchingRowUpToDate ==
    /\ MatchingRowsUpToDate
    /\ pc = "detect" =>
          \A j \in 1..(di - 1) :
              LET k == <<args[j][1].orderProductId, args[j][2].index>>
              IN  (RowMatchesRemote(config, RowOf(files, k), k)
                     /\ exists(disk, path_str(config, args[j][1], args[j][2])))
                  => args[j] \notin Range(todo)

\* C11 witness: change detection classified an item whose row matches and
\* whose file exists, and flagged nothing
C11_Witness ==
    /\ pc = "detect"
    /\ di = 2
    /\ config.use_checksums
    /\ RowMatchesRemote(config, RowOf(files, <<1, 1>>), <<1, 1>>)
    /\ exists(disk, path_str(config, args[1][1], args[1][2]))
    /\ todo = <<>>

\* a product whose publisher name is a single period
Product3 ==
    [orderProductId |-> 3, name |-> <<"R">>, publisher |-> <<".">>,
     fileLastModified |-> "t2", files |-> <<Item21>>]

\* the products whose items the naming options are tried on
NamingProducts == {CatalogueProduct(<<1, 1>>), CatalogueProduct(<<2, 1>>), Product3}

\* need_download_db under cfg2 for the first item of product, synced under cfg:
\* its row is the one the pipeline wrote under cfg and its file is at the path
\* of cfg; atNew tells whether a file is at the path of cfg2 as well
FlaggedAfter(cfg, cfg2, product, atNew) ==
    LET item == Head(product.files)
        k == <<product.orderProductId, item.index>>
        fs == upsert_file(<<>>, k, file_row(cfg, product, item, None, 0))
        old == WithFileAt(<<>>, path_str(cfg, product, item))
        dsk == IF atNew THEN WithFileAt(old, path_str(cfg2, product, item)) ELSE old
    IN  need_download_db(cfg2, fs, dsk, product, item)

\* the destination of the first item of product differs between cfg and cfg2
PathChanges(cfg, cfg2, product) ==
    path_str(cfg, product, Head(product.files)) # path_str(cfg2, product, Head(product.files))

\* toggling a naming option flags a synced item exactly when its path changes
ToggleFlagsChangedPaths ==
    \A cfg \in AllConfigs : \A cfg2 \in Toggled(cfg) :
        \A product \in NamingProducts : \A atNew \in BOOLEAN :
            FlaggedAfter(cfg, cfg2, product, atNew) <=> PathChanges(cfg, cfg2, product)

\* toggling omit_publisher changes the path of every item whose publisher
\* segment is a name
OmitPublisherChangesPath ==
    \A cfg \in AllConfigs : \A product \in NamingProducts :
        normalize_path_part(PublisherOrOthers(product), cfg.compatibility_mode) \notin {<<>>, <<".">>}
            => PathChanges(cfg, [cfg EXCEPT !.omit_publisher = ~cfg.omit_publisher], product)

\* this instance was constructed with one naming option toggled
Renamed == prev.pc # "none" /\ config \in Toggled(prev.config)

\* the item classified at position j has a row written under the previous
\* configuration
SyncedBefore(j) ==
    LET k == <<args[j][1].orderProductId, args[j][2].index>>
    IN  /\ k \in DOMAIN files
        /\ files[k].local_path = path_str(prev.config, args[j][1], args[j][2])

\* C12 as claimed: after a naming option is toggled, change detection flags
\* every previously synced item.
C12_Original ==
    (pc = "detect" /\ Renamed) =>
        \A j \in 1..(di - 1) : SyncedBefore(j) => args[j] \in Range(todo)

\* C12: after omit_publisher or compatibility_mode is toggled, change
\* detection flags every previously synced item whose computed path changed,
\* and an item whose path did not change is not flagged by the toggle; the
\* omit_publisher toggle changes the path whenever the publisher segment is
\* a name.
C12_ChangedPathFlagged ==
    /\ ToggleFlagsChangedPaths
    /\ OmitPublisherChangesPath
    /\ (pc = "detect" /\ Renamed) =>
          \A j \in 1..(di - 1) :
              /\ (SyncedBefore(j) /\ path_str(config, args[j][1], args[j][2])
                                       # path_str(prev.config, args[j][1], args[j][2]))
                    => args[j] \in Range(todo)
              /\ (SyncedBefore(j) /\ prev.pc = "finished" /\ prev.flagged = 0
                     /\ path_str(config, args[j][1], args[j][2])
                            = path_str(prev.config, args[j][1], args[j][2]))
                    => args[j] \notin Range(todo)

\* C12 witness: compatibility_mode was toggled after a pass that found both
\* items up to date; the item of product "A:B" is flagged and the item of
\* product "R" is not
C12_Witness ==
    /\ pc = "detect"
    /\ Renamed
    /\ config.compatibility_mode # prev.config.compatibility_mode
    /\ prev.pc = "finished" /\ prev.flagged = 0
    /\ Len(args) = 2 /\ di = 3
    /\ SyncedBefore(1) /\ SyncedBefore(2)
    /\ todo = <<args[1]>>
    /\ args[2][1].orderProductId = 2

\* C13: with dry_run, every dispatched pipeline returns right after the path
\* is computed: it completes no step (no URL, no fetch, no write, no upsert),
\* holds no content, and through the download phase the filesystem and the
\* files table are as they were when the pass started.
C13_DryRunPipelineReturns ==
    config.dry_run =>
        /\ \A i \in DOMAIN task :
              /\ task[i].stage \in {"queued", "done"}
              /\ task[i].outcome \in {"none", "dry"}
              /\ task[i].did = {}
              /\ task[i].bytes = None
        /\ disk = disk0
        /\ pc \in {"pool", "cleanup"} => files = files0

\* C13 witness: with dry_run, two pipelines were dispatched and both returned,
\* one of them for an item that has no row and no file
C13_Witness ==
    /\ config.dry_run
    /\ pc = "cleanup"
    /\ Len(task) = 2
    /\ \A i \in DOMAIN task : task[i].outcome = "dry"
    /\ \E i \in DOMAIN task : TaskKey(i) \notin DOMAIN files /\ ~exists(disk, TaskPath(i))

\* C14 as claimed: with dry_run, the products table and the files table are
\* the same after the pass as before it.
C14_DryRunNoCacheMutation ==
    (config.dry_run /\ pc = "finished") =>
        /\ files = files0
        /\ products = ProductsAtStart

\* the items change detection flagged: those of process_item_args that needed
\* download against the cache and filesystem of the start of the pass
Flagged ==
    SelectSeq(args, LAMBDA a : need_download_db(config, files0, disk0, a[1], a[2]))

\* C15: never more than config.threads pipelines are in flight; the download
\* phase has one task per flagged item, in order, and none for the others; a
\* task leaves the queue once and a finished task stays finished.
C15_BoundedPoolOneTaskPerItem ==
    /\ Cardinality(InFlight) <= config.threads
    /\ pc \in {"pool", "cleanup", "finished"} =>
          /\ todo = Flagged
          /\ DOMAIN task = DOMAIN todo
    /\ pc \in {"init", "enum", "detect", "aborted", "raised"} => task = <<>>

\* C15 witness: a pool of one thread runs the first of two tasks while the
\* second waits in the queue
C15_Witness ==
    /\ pc = "pool"
    /\ config.threads = 1
    /\ Len(task) = 2
    /\ task[1].stage = "fetch"
    /\ task[2].stage = "queued"

\* the pipeline of task i obtained its URL, fetched, validated where that
\* applies, wrote the file, and has returned
RanToUpsert(i) ==
    /\ {"url", "fetch", "write"} \subseteq task[i].did
    /\ task[i].stage = "done"

\* the row of the task's key holds what step 5 stores
RowRecorded(i) ==
    /\ TaskKey(i) \in DOMAIN files
    /\ files[TaskKey(i)].api_last_modified = TaskProduct(i).fileLastModified
    /\ files[TaskKey(i)].api_checksum = newest_checksum(TaskItem(i))
    /\ files[TaskKey(i)].local_path = TaskPath(i)
    /\ files[TaskKey(i)].local_checksum # None
          <=> (config.validate /\ newest_checksum(TaskItem(i)) # None)

CommittedUpsertRecorded ==
    \A i \in DOMAIN task : task[i].outcome = "ok" => RowRecorded(i)

\* C17 as claimed: a pass ends in one of two ways, aborted by the
\* enumeration's failure or finished, and it has then closed the connection.
C17_PassEndsClosed ==
    ~Running => (pc \in {"aborted", "finished"} /\ conn = "closed")

\* past authentication, with every call returning, a pass does end aborted or
\* finished with the connection closed
PassEndsClosedOnceAuthenticated ==
    (pc = "enum") ~> (pc \in {"aborted", "finished"} /\ conn = "closed")

\* the checksum of the first entry that has the latest date
FirstNewest(sums) ==
    LET i == CHOOSE n \in DOMAIN sums :
                 /\ \A j \in DOMAIN sums : ~DateLess(sums[n].checksumDate, sums[j].checksumDate)
                 /\ \A j \in 1..(n - 1) : DateLess(sums[j].checksumDate, sums[n].checksumDate)
    IN  sums[i].checksum

\* the checksums of the entries that have the latest date
NewestChecksums(sums) ==
    {sums[n].checksum : n \in {m \in DOMAIN sums :
        \A j \in DOMAIN sums : ~DateLess(sums[m].checksumDate, sums[j].checksumDate)}}

\* two lists hold the same entries, in any order
SameEntries(a, b) ==
    /\ Len(a) = Len(b)
    /\ \A e \in ChecksumEntries :
          Cardinality({n \in DOMAIN a : a[n] = e}) = Cardinality({n \in DOMAIN b : b[n] = e})

\* the spec's example: entries c1 of 2020, c2 of 2021, c3 of 2019
ExampleChecksums ==
    << [checksum |-> "c1", checksumDate |-> <<2020, 1, 1>>],
       [checksum |-> "c2", checksumDate |-> <<2021, 1, 1>>],
       [checksum |-> "c3", checksumDate |-> <<2019, 1, 1>>] >>

\* C18 as claimed: for the items change detection classifies,
\* _newest_checksum is None without entries and otherwise the same for every
\* order of the item's entries.
C18_Original ==
    pc = "detect" =>
        \A j \in 1..(di - 1) :
            LET sums == args[j][2].checksums
            IN  /\ sums = <<>> => newest_checksum(args[j][2]) = None
                /\ \A other \in ChecksumLists :
                      SameEntries(sums, other)
                          => newest_checksum([checksums |-> other]) = newest_checksum(args[j][2])

\* C18: _newest_checksum is None without entries and otherwise the checksum of
\* the first entry that has the latest date; it is the same for every order
\* of the entries when the entries of the latest date carry one checksum; for
\* the example it is c2.
C18_NewestChecksum ==
    /\ newest_checksum([checksums |-> ExampleChecksums]) = "c2"
    /\ pc = "detect" =>
          \A j \in 1..(di - 1) :
              LET sums == args[j][2].checksums
              IN  /\ sums = <<>> => newest_checksum(args[j][2]) = None
                  /\ sums # <<>> => newest_checksum(args[j][2]) = FirstNewest(sums)
                  /\ Cardinality(NewestChecksums(sums)) = 1 =>
                        \A other \in ChecksumLists :
                            SameEntries(sums, other)
                                => newest_checksum([checksums |-> other])
                                       = newest_checksum(args[j][2])

\* C18 witness: change detection classified an item whose three entries have
\* the latest date, 2021, in the middle
C18_Witness ==
    /\ pc = "detect"
    /\ di = 2
    /\ Len(args[1][2].checksums) = 3
    /\ args[1][2].checksums[1].checksumDate = <<2020, 1, 1>>
    /\ args[1][2].checksums[2] = [checksum |-> "c2", checksumDate |-> <<2021, 1, 1>>]
    /\ args[1][2].checksums[3].checksumDate = <<2019, 1, 1>>
    /\ newest_checksum(args[1][2]) = "c2"

\* s ends with suf
EndsWith(s, suf) ==
    /\ Len(s) >= Len(suf)
    /\ SubSeq(s, Len(s) - Len(suf) + 1, Len(s)) = suf

RECURSIVE TrimSeparator(_)
\* s without the occurrences of " - " it starts and ends with
TrimSeparator(s) ==
    IF StartsWith(s, separator_drpg) THEN TrimSeparator(Drop(s, Len(separator_drpg)))
    ELSE IF EndsWith(s, separator_drpg)
         THEN TrimSeparator(SubSeq(s, 1, Len(s) - Len(separator_drpg)))
         ELSE s

\* the reference of the default policy: decode, replace, trim the separator,
\* collapse separators, collapse whitespace
ReferenceNormalize(part) ==
    CollapseWhitespace(CollapseSeparators(TrimSeparator(ReplaceForbidden(Unescape(part)))))

\* the path of product's item with each segment normalized by the reference
ReferencePath(product, item) ==
    JoinPath(<< ReferenceNormalize(PublisherOrOthers(product)),
                ReferenceNormalize(product.name),
                ReferenceNormalize(item.filename) >>)

\* C19 as claimed: under the default policy, the destination each pipeline
\* computes is made of the reference normalization of the publisher, product
\* and file names.
C19_NormalizeIsReference ==
    \A i \in DOMAIN task :
        ~config.compatibility_mode => TaskPath(i) = ReferencePath(TaskProduct(i), TaskItem(i))

\* the spec's example of the default policy holds of normalize
NormalizeExample ==
    normalize(<< "S", "w", "o", "r", "d", " ", "&", "a", "m", "p", ";", " ",
                 "S", "o", "r", "c", "e", "r", "y", ":", " ", "R", "u", "l",
                 "e", "s" >>)
        = << "S", "w", "o", "r", "d", " ", "&", " ", "S", "o", "r", "c",
             "e", "r", "y", " ", "-", " ", "R", "u", "l", "e", "s" >>

\* what str.isalpha accepts, of the characters the model's strings can spell
UnicodeLetters == Letters \cup {"é"}

RECURSIVE ReferenceCompatible(_, _)
\* the reference of the compatibility policy, one character at a time: a run
\* of whitespace becomes one space, a letter, digit or period stays, any
\* other character becomes "_"
ReferenceCompatible(part, letters) ==
    IF part = <<>> THEN <<>>
    ELSE IF Head(part) \in Whitespace
         THEN <<" ">> \o ReferenceCompatible(LStrip(part, Whitespace), letters)
         ELSE << IF Head(part) \in letters \cup Digits \cup {"."} THEN Head(part) ELSE "_" >>
              \o ReferenceCompatible(Tail(part), letters)

\* the path of product's item with each segment normalized by the reference
CompatiblePath(product, item, letters) ==
    JoinPath(<< ReferenceCompatible(PublisherOrOthers(product), letters),
                ReferenceCompatible(product.name, letters),
                ReferenceCompatible(item.filename, letters) >>)

-----------------------------------------------------------------------------
(* Detection before downloads *)

\* the items classified so far, judged against the cache and the filesystem of
\* the start of the pass
FlaggedSoFar ==
    SelectSeq(SubSeq(args, 1, di - 1),
              LAMBDA a : need_download_db(config, files0, disk0, a[1], a[2]))

\* C21: every change-detection decision of a pass is taken before the first
\* download task exists: while items are classified no task has been created
\* and the cache rows and the files are those of the start of the pass, so each
\* decision is the one the start-of-pass state gives; once a task exists every
\* item has been classified and the decisions no longer change.
C21_DecisionsBeforeDownloads ==
    /\ pc \in {"init", "enum", "detect"} =>
          /\ task = <<>>
          /\ files = files0
          /\ disk = disk0
    /\ pc = "detect" => todo = FlaggedSoFar
    /\ task # <<>> =>
          /\ di = Len(args) + 1
          /\ todo = FlaggedSoFar

\* a pass with two flagged items whose first task has written its file while
\* the second is still queued
C21_Witness ==
    /\ pc = "pool"
    /\ Len(todo) = 2
    /\ "write" \in task[1].did
    /\ task[2].stage = "queued"
    /\ disk # disk0

-----------------------------------------------------------------------------
(* One task per key *)

\* enumerations in which a (product, item) key occurs twice: the product is
\* yielded twice (a page repeated by customer_products()), or lists a file twice
DuplicateLibraries ==
    { << Product1(<<Item11>>), Product1(<<Item11>>) >>,
      << Product1(<<Item11, Item11>>) >> }

InitDuplicates ==
    /\ config \in Configs
    /\ library \in DuplicateLibraries
    /\ \E kind \in RowKinds :
          /\ files = InitFiles(config, [k \in Keys |-> kind])
          /\ disk = InitDisk(files)
          /\ products = InitProducts(files)
    /\ conn = "open"
    /\ pc = "init"
    /\ touched = {}
    /\ args = <<>>
    /\ ei = 1
    /\ di = 1
    /\ todo = <<>>
    /\ task = <<>>
    /\ now = 1
    /\ files0 = files
    /\ disk0 = disk
    /\ prev = NoPrev
    /\ err = "none"

\* one DrpgSync instance whose enumeration repeats a key
SpecDuplicates == InitDuplicates /\ [][Next]_vars

\* C22: within one pass no two download tasks have the same (productId,
\* itemId) key, whatever the enumeration yields.
C22_OneTaskPerKey ==
    \A i, j \in DOMAIN task : TaskKey(i) = TaskKey(j) => i = j

\* two pool threads are about to write the same path and the same row
TwoWorkersOneKey ==
    \E i, j \in InFlight :
        /\ i # j
        /\ TaskKey(i) = TaskKey(j)
        /\ task[i].stage = "write"
        /\ task[j].stage = "write"

-----------------------------------------------------------------------------
(* The triggers of change detection *)

\* the four triggers for an item with row row: the destination path differs
\* from local_path, the remote last-modified string differs from
\* api_last_modified, with use_checksums the newest remote checksum differs
\* from api_checksum, the cached path does not exist
Triggered(cfg, row, dsk, product, item) ==
    \/ path_str(cfg, product, item) # row.local_path
    \/ product.fileLastModified # row.api_last_modified
    \/ cfg.use_checksums /\ newest_checksum(item) # row.api_checksum
    \/ ~exists(dsk, row.local_path)

\* the rows the triggers are tried on: either path, either last-modified
\* string, every checksum value
TriggerRows(cfg, product, item) ==
    { [file_row(cfg, product, item, sum, 0) EXCEPT
          !.api_checksum = sum, !.api_last_modified = lm, !.local_path = p] :
      sum \in RowChecksums, lm \in {"t1", "t2"},
      p \in {path_str(cfg, product, item), <<"/", "e">>} }

\* for every configuration, item, row and presence of the file, the item is
\* flagged exactly when a trigger holds
TriggersDecide ==
    \A k \in Keys : \A cfg \in AllConfigs :
        LET product == CatalogueProduct(k)
            item == CatalogueItem(k)
        IN  \A row \in TriggerRows(cfg, product, item) : \A present \in BOOLEAN :
                LET fs == upsert_file(<<>>, k, row)
                    dsk == IF present THEN WithFileAt(<<>>, row.local_path) ELSE <<>>
                IN  need_download_db(cfg, fs, dsk, product, item)
                        <=> Triggered(cfg, row, dsk, product, item)

\* with use_checksums off, a row that differs from the remote state in its
\* checksum only is up to date; this includes a row holding a checksum for an
\* item the remote reports none for
ChecksumAloneIgnored ==
    \A k \in Keys : \A cfg \in AllConfigs : \A sum \in RowChecksums :
        LET product == CatalogueProduct(k)
            item == CatalogueItem(k)
            row == [file_row(cfg, product, item, sum, 0) EXCEPT !.api_checksum = sum]
            fs == upsert_file(<<>>, k, row)
            dsk == WithFileAt(<<>>, row.local_path)
        IN  sum # newest_checksum(item) =>
                (need_download_db(cfg, fs, dsk, product, item) <=> cfg.use_checksums)

\* C23: an item with a cache row is flagged whenever one of the four triggers
\* holds (and only then); with use_checksums off a checksum difference alone
\* does not flag it.  For every configuration and row, and for every item with
\* a row that the pass's change detection has classified.
C23_TriggersFlag ==
    /\ TriggersDecide
    /\ ChecksumAloneIgnored
    /\ pc = "detect" =>
          \A j \in 1..(di - 1) :
              LET k == <<args[j][1].orderProductId, args[j][2].index>>
              IN  k \in DOMAIN files =>
                     (args[j] \in Range(todo)
                        <=> Triggered(config, files[k], disk, args[j][1], args[j][2]))

\* change detection, checksum comparison off, classified two items with rows
\* and files: it flagged the one whose row holds an earlier last-modified
\* string and passed the one whose row holds the current remote state
C23_Witness ==
    /\ pc = "detect"
    /\ di = 3
    /\ ~config.use_checksums
    /\ {<<1, 1>>, <<1, 2>>} \subseteq DOMAIN files
    /\ files[<<1, 1>>].api_last_modified = "t1"
    /\ files[<<1, 2>>].api_last_modified = "t2"
    /\ todo = <<args[1]>>

-----------------------------------------------------------------------------
(* Cache rows and the current destination paths *)

\* every download the pass dispatched fetched its content, passed validation
\* and wrote its file
PassDownloaded ==
    /\ pc = "finished"
    /\ \A i \in DOMAIN task : task[i].outcome \in {"ok", "db_failed"}

\* the row of every enumerated item that has one holds the destination path
\* the current configuration gives
RowsAtCurrentPaths ==
    \A j \in DOMAIN args :
        LET k == <<args[j][1].orderProductId, args[j][2].index>>
        IN  k \in DOMAIN files =>
                files[k].local_path = path_str(config, args[j][1], args[j][2])

\* C24 as claimed: a row a pipeline of the pass wrote holds the destination
\* path of the pass's configuration; after a pass in which every dispatched
\* download succeeded every enumerated item's row holds the path computed from
\* the current configuration; and no file that existed is moved or removed.
C24_RowsAtCurrentPath ==
    /\ \A i \in DOMAIN task :
          task[i].outcome = "ok" => files[TaskKey(i)].local_path = TaskPath(i)
    /\ PassDownloaded => RowsAtCurrentPaths
    /\ DOMAIN disk0 \subseteq DOMAIN disk

\* when every upsert of the pass committed as well, the rows hold the current
\* paths
RecordedPassAtCurrentPaths ==
    (pc = "finished" /\ \A i \in DOMAIN task : task[i].outcome = "ok")
        => RowsAtCurrentPaths

-----------------------------------------------------------------------------
(* The two checksum options *)

\* step 3 hashes and accepts or rejects a content by validate and the newest
\* remote checksum alone: use_checksums makes no difference
ValidationIgnoresUseChecksums ==
    \A k \in Keys : \A cfg \in AllConfigs : \A content \in Contents :
        LET item == CatalogueItem(k)
            other == [cfg EXCEPT !.use_checksums = ~cfg.use_checksums]
        IN  /\ checksum_valid(cfg, item, content) = checksum_valid(other, item, content)
            /\ local_checksum_of(cfg, item, content) = local_checksum_of(other, item, content)
            /\ ~checksum_valid(cfg, item, content) <=>
                  (cfg.validate /\ newest_checksum(item) # None
                     /\ MD5(content) # newest_checksum(item))
            /\ local_checksum_of(cfg, item, content) # None <=>
                  (cfg.validate /\ newest_checksum(item) # None)

\* change detection gives the same answer with validate on and off, and looks
\* at the checksums exactly when use_checksums is on
DetectionIgnoresValidate ==
    \A k \in Keys : \A cfg \in AllConfigs :
        LET product == CatalogueProduct(k)
            item == CatalogueItem(k)
            other == [cfg EXCEPT !.validate = ~cfg.validate]
        IN  \A row \in TriggerRows(cfg, product, item) :
                LET fs == upsert_file(<<>>, k, row)
                    dsk == WithFileAt(<<>>, row.local_path)
                    same == [row EXCEPT !.api_checksum = newest_checksum(item)]
                IN  /\ need_download_db(cfg, fs, dsk, product, item)
                          = need_download_db(other, fs, dsk, product, item)
                    /\ (need_download_db(cfg, fs, dsk, product, item)
                          # need_download_db(cfg, upsert_file(<<>>, k, same), dsk, product, item))
                       => cfg.use_checksums

\* the pipeline of task i hashed the content it fetched and compared it
Hashed(i) == "validate" \in task[i].did \/ task[i].outcome = "invalid"

\* C25: a fetched content is hashed and compared with the newest remote
\* checksum exactly when validate is on and the remote reports a checksum,
\* whatever use_checksums; change detection compares checksums exactly when
\* use_checksums is on, whatever validate; an item without a remote checksum is
\* written without validation and recorded with no local_checksum.
C25_ChecksumOptionsIndependent ==
    /\ ValidationIgnoresUseChecksums
    /\ DetectionIgnoresValidate
    /\ \A i \in DOMAIN task :
          /\ task[i].bytes # None =>
                /\ Hashed(i) <=> (config.validate /\ newest_checksum(TaskItem(i)) # None)
                /\ task[i].outcome = "invalid" <=> HashMismatch(i)
          /\ (newest_checksum(TaskItem(i)) = None /\ task[i].outcome = "ok") =>
                /\ "write" \in task[i].did
                /\ ~Hashed(i)
                /\ files[TaskKey(i)].local_checksum = None

\* validate on and use_checksums off: the content of an item with checksums
\* was rejected on its hash, and an item without checksums was written and
\* recorded with no local_checksum
C25_Witness ==
    /\ config.validate
    /\ ~config.use_checksums
    /\ pc = "finished"
    /\ \E i, j \in DOMAIN task :
          /\ task[i].outcome = "invalid"
          /\ newest_checksum(TaskItem(j)) = None
          /\ task[j].outcome = "ok"
          /\ files[TaskKey(j)].local_checksum = None

-----------------------------------------------------------------------------
(* Items that are up to date *)

\* the enumerated items change detection reports as up to date
UpToDate ==
    {j \in DOMAIN args : ~need_download_db(config, files0, disk0, args[j][1], args[j][2])}

ArgKey(j) == <<args[j][1].orderProductId, args[j][2].index>>

\* C26: an item reported as up to date is left alone for the whole pass: no
\* task exists for it, so no URL is requested and nothing is fetched or
\* written for it; the file at its path stays as it was; and its cache row is
\* still there, unchanged, when the pass has finished.
C26_UpToDateLeftAlone ==
    pc \in {"pool", "cleanup", "finished"} =>
        \A j \in UpToDate :
            /\ \A i \in DOMAIN task : TaskKey(i) # ArgKey(j)
            /\ ArgKey(j) \in DOMAIN files
            /\ files[ArgKey(j)] = files0[ArgKey(j)]
            /\ LET p == path_str(config, args[j][1], args[j][2])
               IN  FileAt(disk, p) = FileAt(disk0, p)

\* a finished pass of two items: one was up to date, the file of the other
\* was downloaded and written, and cleanup removed an orphan row
C26_Witness ==
    /\ pc = "finished"
    /\ Len(args) = 2
    /\ Cardinality(UpToDate) = 1
    /\ \E i \in DOMAIN task : "write" \in task[i].did
    /\ DOMAIN files0 \ DOMAIN files # {}

-----------------------------------------------------------------------------
(* The foreign key of the files table *)

\* C27: in every reachable state each row of the files table has its product
\* in the products table: the product of every item handed to detection and to
\* the pool has been upserted, and no product row present at the start is
\* ever missing.
C27_FilesReferToProducts ==
    /\ \A k \in DOMAIN files : k[1] \in DOMAIN products
    /\ \A j \in DOMAIN args : args[j][1].orderProductId \in DOMAIN products
    /\ DOMAIN ProductsAtStart \subseteq DOMAIN products

\* a pipeline is about to upsert the row of an item whose product had no row
\* when the pass started
C27_Witness ==
    \E i \in DOMAIN task :
        /\ task[i].stage = "db"
        /\ TaskKey(i)[1] \notin DOMAIN ProductsAtStart
        /\ TaskKey(i)[1] \in DOMAIN products

-----------------------------------------------------------------------------
(* Retrying failed downloads *)

\* a database whose rows are all of one kind and whose files are all there, or
\* have all been deleted out of band
InitRetry ==
    /\ config \in Configs
    /\ config.use_checksums
    /\ library \in Libraries
    /\ \E kind \in RowKinds :
          /\ files = InitFiles(config, [k \in Keys |-> kind])
          /\ disk \in {InitDisk(files), <<>>}
          /\ products = InitProducts(files)
    /\ conn = "open"
    /\ pc = "init"
    /\ touched = {}
    /\ args = <<>>
    /\ ei = 1
    /\ di = 1
    /\ todo = <<>>
    /\ task = <<>>
    /\ now = 1
    /\ files0 = files
    /\ disk0 = disk
    /\ prev = NoPrev
    /\ err = "none"

\* successive DrpgSync instances on such a database
SpecRetry == InitRetry /\ [][NextRuns]_vars

\* C28 as claimed: an item whose pipeline failed in the previous pass and that
\* is enumerated again, the remote state unchanged, is flagged by this pass.
C28_FailedFlaggedAgain ==
    (pc \in {"pool", "cleanup", "finished"} \/ (pc = "detect" /\ di = Len(args) + 1)) =>
        \A j \in DOMAIN args :
            ArgKey(j) \in prev.failed => args[j] \in Range(todo)

\* the same, when no failed write has left a partial file
FailedWithoutTruncationFlaggedAgain ==
    (pc \in {"pool", "cleanup", "finished"} \/ (pc = "detect" /\ di = Len(args) + 1)) =>
        \A j \in DOMAIN args :
            (ArgKey(j) \in prev.failed
               /\ \A p \in DOMAIN disk : disk[p].bytes # "truncated")
            => args[j] \in Range(todo)

-----------------------------------------------------------------------------
(* sync() called again on the same instance *)

\* sync() has returned or raised and is called again on the same DrpgSync:
\* self._db_conn and self._touched_items are what the earlier call left,
\* process_item_args and items_to_download are new lists
SyncAgain ==
    /\ pc \in {"finished", "aborted", "raised"}
    /\ now < MaxPasses
    /\ prev' = [pc |-> pc, outcomes |-> {task[i].outcome : i \in DOMAIN task},
                flagged |-> Len(todo), config |-> config,
                failed |-> FailedKeys, again |-> TRUE]
    /\ pc' = "init"
    /\ args' = <<>>
    /\ ei' = 1
    /\ di' = 1
    /\ todo' = <<>>
    /\ task' = <<>>
    /\ now' = now + 1
    /\ files0' = files
    /\ disk0' = disk
    /\ err' = "none"
    /\ UNCHANGED <<config, library, products, files, disk, conn, touched>>

\* _update_product_in_db for the product just yielded enters "with
\* self._db_conn" with self._db_conn None: the exception is caught by the
\* except branch of sync()
EnumClosed ==
    /\ pc = "enum"
    /\ conn = "closed"
    /\ ei <= Len(library)
    /\ AbortPass("closed")

NextAgain == Next \/ NewInstance \/ SyncAgain \/ EnumClosed

\* DrpgSync instances on the same database, sync() called once or more on each
SpecAgain == InitRuns /\ [][NextAgain]_vars

\* this call of sync() follows one, on the same instance, that returned
SecondCall == prev.again /\ prev.pc \in {"finished", "aborted"}

-----------------------------------------------------------------------------
(* A store failure during enumeration *)

\* C30: a cache-store failure on a product upsert during enumeration ends the
\* whole pass as an enumeration failure: the pass is aborted with the
\* connection closed, the failing product and those after it are not
\* enumerated, nothing is classified or dispatched, and no row is removed or
\* changed and no file written.
C30_StoreFailureAbortsPass ==
    err = "store" =>
        /\ pc = "aborted"
        /\ conn = "closed"
        /\ ei <= Len(library)
        /\ \A j \in DOMAIN args : \E q \in 1..(ei - 1) : args[j][1] = library[q]
        /\ di = 1
        /\ todo = <<>>
        /\ task = <<>>
        /\ files = files0
        /\ disk = disk0

\* the upsert of the second product failed after the first product and its
\* item were enumerated, with orphan rows in the cache
C30_Witness ==
    /\ err = "store"
    /\ pc = "aborted"
    /\ ei = 2
    /\ Len(args) = 1
    /\ DOMAIN files \ touched # {}

====
